---- MODULE Spec2Model ----
(***************************************************************************)
(* The "Extract & Auto-Fill" pipeline of the JD Generator (src/app.py):    *)
(* rule_extract, llm_fill_missing, normalize_skills, confidence_score and  *)
(* the button handler that chains them.                                    *)
(*                                                                         *)
(* Python str values are TLA+ strings, handled character by character with *)
(* Len, SubSeq and \o.  The documents of the model are written over the    *)
(* ASCII letters, digits, punctuation, the space and the newline.          *)
(***************************************************************************)
EXTENDS Integers, Sequences, FiniteSets, TLC

VARIABLES
    raw_text,       \* the text extract_text returned for the uploaded file
    pc,             \* position of the button handler (lines 284-294)
    rule_filled,    \* history: the record as rule_extract returned it
    filled,         \* outcome of the model call and of json.loads(decoded)
    llm_calls,      \* history: number of llm_model.generate calls of the run
    completed,      \* history: the record as llm_fill_missing returned it
    final,          \* the record the handler holds (base and final alias it)
    session_state   \* st.session_state: keys "data" and "confidence"

vars == <<raw_text, pc, rule_filled, filled, llm_calls, completed, final,
          session_state>>

(***************************************************************************)
(* Bounds of the model.                                                    *)
(***************************************************************************)
MaxDocLines == 2

MaxSectionLines == 5

MaxSkillTokens == 3

(***************************************************************************)
(* Python str primitives.                                                  *)
(***************************************************************************)
None == "None"

Whitespace == {" ", "\n", "\t"}

Digits == {"0", "1", "2", "3", "4", "5", "6", "7", "8", "9"}

UpperCase == "ABCDEFGHIJKLMNOPQRSTUVWXYZ"

LowerCase == "abcdefghijklmnopqrstuvwxyz"

\* s[i-1:i]: the i-th character, "" beyond the end
Char(s, i) == IF i \in 1..Len(s) THEN SubSeq(s, i, i) ELSE ""

MinOf(S) == CHOOSE i \in S : \A j \in S : i <= j

MaxOf(S) == CHOOSE i \in S : \A j \in S : i >= j

\* s.find(c) + 1 for a one-character c: 0 when c does not occur
IndexOf(c, s) ==
    LET hits == {i \in 1..Len(s) : Char(s, i) = c}
    IN  IF hits = {} THEN 0 ELSE MinOf(hits)

LowerMap ==
    [c \in {Char(UpperCase, i) : i \in 1..Len(UpperCase)} |->
        Char(LowerCase, IndexOf(c, UpperCase))]

LowerChar(c) == IF c \in DOMAIN LowerMap THEN LowerMap[c] ELSE c

\* s.lower(), by halves
RECURSIVE lower(_)
lower(s) ==
    IF Len(s) <= 1 THEN LowerChar(s)
    ELSE LET h == Len(s) \div 2
         IN  lower(SubSeq(s, 1, h)) \o lower(SubSeq(s, h + 1, Len(s)))

lstrip(s) ==
    IF s = "" \/ Head(s) \notin Whitespace THEN s
    ELSE LET keep == {i \in 1..Len(s) : Char(s, i) \notin Whitespace}
         IN  IF keep = {} THEN "" ELSE SubSeq(s, MinOf(keep), Len(s))

rstrip(s) ==
    IF s = "" \/ Char(s, Len(s)) \notin Whitespace THEN s
    ELSE LET keep == {i \in 1..Len(s) : Char(s, i) \notin Whitespace}
         IN  IF keep = {} THEN "" ELSE SubSeq(s, 1, MaxOf(keep))

strip(s) == rstrip(lstrip(s))

\* sub in s
Contains(s, sub) ==
    \E i \in 1..(Len(s) - Len(sub) + 1) : SubSeq(s, i, i + Len(sub) - 1) = sub

\* s.splitlines(), one step per line
RECURSIVE splitlines(_)
splitlines(s) ==
    IF s = "" THEN <<>>
    ELSE LET i == IndexOf("\n", s)
         IN  IF i = 0 THEN <<s>>
             ELSE <<SubSeq(s, 1, i - 1)>> \o splitlines(SubSeq(s, i + 1, Len(s)))

\* len(s.split()): the number of maximal runs of non-whitespace characters
WordCount(s) ==
    Cardinality({i \in 1..Len(s) :
        /\ Char(s, i) \notin Whitespace
        /\ (i = 1 \/ Char(s, i - 1) \in Whitespace)})

(***************************************************************************)
(* Python values: a record holds str values, and whatever JSON value       *)
(* llm_fill_missing copies into it.  Non-str values carry their JSON text. *)
(***************************************************************************)
Str(s) == [t |-> "str", v |-> s]

Num(lit) == [t |-> "int", v |-> lit]

Obj(lit) == [t |-> "dict", v |-> lit]

\* bool(value)
Truthy(x) ==
    CASE x.t = "str" -> x.v # ""
      [] x.t = "int" -> x.v # "0"
      [] x.t = "dict" -> x.v # "{}"
      [] OTHER -> FALSE

\* dict assignment d[k] = v (a new key is added)
Put(d, k, v) == [x \in DOMAIN d \cup {k} |-> IF x = k THEN v ELSE d[x]]

\* d.update(e)
Update(d, e) ==
    [x \in DOMAIN d \cup DOMAIN e |-> IF x \in DOMAIN e THEN e[x] ELSE d[x]]

(***************************************************************************)
(* The template (lines 25-59).                                             *)
(***************************************************************************)
FIELD_KEYS ==
    << "company_name", "official_website", "preferred_education",
       "desired_experience", "designation", "stipend_part_time", "stipend",
       "internship_duration", "roles_responsibilities", "skills",
       "joining_location", "joining_month", "openings", "selection_process" >>

FieldKeySet == {FIELD_KEYS[i] : i \in 1..Len(FIELD_KEYS)}

EMPTY_SCHEMA == [k \in FieldKeySet |-> Str("")]

(***************************************************************************)
(* extract_text, text/plain branch: the final normalisation (line 98).     *)
(***************************************************************************)
\* re.sub(r"\n{2,}", "\n", text), one step per run of newlines
RECURSIVE CollapseNewlines(_)
CollapseNewlines(s) ==
    LET runs == {i \in 1..(Len(s) - 1) : SubSeq(s, i, i + 1) = "\n\n"}
    IN  IF runs = {} THEN s
        ELSE LET i == MinOf(runs)
                 after == {j \in i..Len(s) : Char(s, j) # "\n"}
             IN  IF after = {} THEN SubSeq(s, 1, i)
                 ELSE SubSeq(s, 1, i)
                          \o CollapseNewlines(SubSeq(s, MinOf(after), Len(s)))

extract_text(content) == strip(CollapseNewlines(content))

(***************************************************************************)
(* rule_extract: the section scan (lines 105-125).                         *)
(***************************************************************************)
RolesKeywords == {"role", "responsibilit"}

SkillsKeywords == {"skill", "qualification", "requirement"}

SelectionKeywords == {"selection", "interview", "process"}

\* re.search(r"(k1|k2|...)", l, re.I) for literal alternatives
SearchAny(keywords, l) ==
    LET low == lower(l) IN \E kw \in keywords : Contains(low, kw)

\* the if/elif chain of lines 113-121: the section a line opens, or None
HeaderOf(l) ==
    LET low == lower(l)
    IN  IF \E kw \in RolesKeywords : Contains(low, kw)
        THEN "roles_responsibilities"
        ELSE IF \E kw \in SkillsKeywords : Contains(low, kw)
        THEN "skills"
        ELSE IF \E kw \in SelectionKeywords : Contains(low, kw)
        THEN "selection_process"
        ELSE None

\* line 123 appending to every section opened so far
AppendLineToOpened(sections, current, l) ==
    [key \in DOMAIN sections |-> Str(sections[key].v \o l \o "\n")]

\* line 123
AppendLine(sections, current, l) ==
    Put(sections, current, Str(sections[current].v \o l \o "\n"))

\* lines 115, 118, 121
OpenSection(sections, key) == Put(sections, key, Str(""))

\* the loop of lines 108-123
RECURSIVE ScanLines(_, _, _)
ScanLines(lines, current, sections) ==
    IF lines = <<>> THEN sections
    ELSE LET l == strip(Head(lines))
             h == HeaderOf(l)
         IN  IF l = "" THEN ScanLines(Tail(lines), current, sections)
             ELSE IF h # None
                  THEN ScanLines(Tail(lines), h, OpenSection(sections, h))
             ELSE IF current # None
                  THEN ScanLines(Tail(lines), current,
                                 AppendLine(sections, current, l))
             ELSE ScanLines(Tail(lines), current, sections)

ExtractSections(text) == ScanLines(splitlines(text), None, <<>>)

(***************************************************************************)
(* rule_extract: the pattern rules (lines 127-143).  Each operator is the  *)
(* leftmost match re.search finds, as [found, group] where group is the    *)
(* group the code reads.  Every quantifier of these patterns is followed   *)
(* by something its own characters cannot match, so the greedy choice is   *)
(* the only one and no backtracking changes a match.                       *)
(***************************************************************************)
NoMatch == [found |-> FALSE, group |-> ""]

Match(g) == [found |-> TRUE, group |-> g]

\* s.startswith(lit, i-1)
StartsAt(s, i, lit) ==
    /\ i + Len(lit) - 1 <= Len(s)
    /\ SubSeq(s, i, i + Len(lit) - 1) = lit

\* the end (exclusive) of the longest run of characters of cs starting at i
Span(s, i, cs) ==
    LET stop == {j \in i..Len(s) : Char(s, j) \notin cs}
    IN  IF stop = {} THEN Len(s) + 1 ELSE MinOf(stop)

\* the end (exclusive) of (.*) starting at i: "." matches all but a newline
LineEnd(s, i) ==
    LET stop == {j \in i..Len(s) : Char(s, j) = "\n"}
    IN  IF stop = {} THEN Len(s) + 1 ELSE MinOf(stop)

LiteralAt(low, i, lits) == {u \in lits : StartsAt(low, i, u)}

\* (job title|designation|role)\s*[:\-]\s*(.*) with re.I: group(2)
SearchDesignation(text, low) ==
    LET kws == {"job title", "designation", "role"}
        sep(p) == Span(text, p + Len(CHOOSE u \in LiteralAt(low, p, kws) : TRUE),
                       Whitespace)
        starts == {p \in 1..Len(text) :
                      /\ LiteralAt(low, p, kws) # {}
                      /\ Char(text, sep(p)) \in {":", "-"}}
    IN  IF starts = {} THEN NoMatch
        ELSE LET k == Span(text, sep(MinOf(starts)) + 1, Whitespace)
             IN  Match(SubSeq(text, k, LineEnd(text, k) - 1))

\* \d+ plus? \s{minWs,} (u1|u2|...) s? with re.I: group(0)
SearchQuantity(text, low, plus, minWs, units, plural) ==
    LET afterNum(p) ==
            LET d == Span(text, p, Digits)
            IN  IF plus /\ Char(text, d) = "+" THEN d + 1 ELSE d
        unitAt(p) == Span(text, afterNum(p), Whitespace)
        starts == {p \in 1..Len(text) :
                      /\ Char(text, p) \in Digits
                      /\ unitAt(p) - afterNum(p) >= minWs
                      /\ LiteralAt(low, unitAt(p), units) # {}}
    IN  IF starts = {} THEN NoMatch
        ELSE LET p == MinOf(starts)
                 u == CHOOSE u \in LiteralAt(low, unitAt(p), units) : TRUE
                 e == unitAt(p) + Len(u)
             IN  Match(SubSeq(text, p,
                              IF plural /\ Char(low, e) = "s" THEN e ELSE e - 1))

\* \d+\+?\s*years? with re.I
SearchExperience(text, low) == SearchQuantity(text, low, TRUE, 0, {"year"}, TRUE)

\* \d+\s*(months?|weeks?) with re.I
SearchDuration(text, low) ==
    SearchQuantity(text, low, FALSE, 0, {"month", "week"}, TRUE)

\* \d+\s+(openings|positions|vacancies) with re.I
SearchOpenings(text, low) ==
    SearchQuantity(text, low, FALSE, 1, {"openings", "positions", "vacancies"},
                   FALSE)

\* (₹|\$)\s?\d+[,\d]* : group(0)
SearchStipend(text) ==
    LET syms == {"₹", "$"}
        num(p) ==
            LET q == p + Len(CHOOSE u \in LiteralAt(text, p, syms) : TRUE)
            IN  IF Char(text, q) \in Whitespace THEN q + 1 ELSE q
        starts == {p \in 1..Len(text) :
                      /\ LiteralAt(text, p, syms) # {}
                      /\ Char(text, num(p)) \in Digits}
    IN  IF starts = {} THEN NoMatch
        ELSE LET p == MinOf(starts)
             IN  Match(SubSeq(text, p, Span(text, num(p), Digits \cup {","}) - 1))

\* (location|based at)\s*[:\-]?\s*(.*) with re.I: group(2)
SearchLocation(text, low) ==
    LET kws == {"location", "based at"}
        starts == {p \in 1..Len(text) : LiteralAt(low, p, kws) # {}}
    IN  IF starts = {} THEN NoMatch
        ELSE LET p == MinOf(starts)
                 j == Span(text, p + Len(CHOOSE u \in LiteralAt(low, p, kws) : TRUE),
                           Whitespace)
                 k == Span(text, IF Char(text, j) \in {":", "-"} THEN j + 1 ELSE j,
                           Whitespace)
             IN  Match(SubSeq(text, k, LineEnd(text, k) - 1))

\* if m := ...: data[key] = value
SetIfMatch(data, key, m, value) == IF m.found THEN Put(data, key, Str(value)) ELSE data

rule_extract(text) ==
    LET low == lower(text)  \* what re.I compares
        d0 == Update(EMPTY_SCHEMA, ExtractSections(text))
        m1 == SearchDesignation(text, low)
        d1 == SetIfMatch(d0, "designation", m1, strip(m1.group))
        m2 == SearchExperience(text, low)
        d2 == SetIfMatch(d1, "desired_experience", m2, m2.group)
        m3 == SearchStipend(text)
        d3 == SetIfMatch(d2, "stipend", m3, m3.group)
        m4 == SearchDuration(text, low)
        d4 == SetIfMatch(d3, "internship_duration", m4, m4.group)
        m5 == SearchOpenings(text, low)
        d5 == SetIfMatch(d4, "openings", m5, m5.group)
        m6 == SearchLocation(text, low)
    IN  SetIfMatch(d5, "joining_location", m6, m6.group)

(***************************************************************************)
(* normalize_skills (lines 150-165).                                       *)
(***************************************************************************)
SKILL_MAP ==
    [canon \in {"Python", "Java", "SQL", "Machine Learning", "Data Analysis"} |->
        CASE canon = "Python" -> {"python", "py"}
          [] canon = "Java" -> {"java", "java se", "java 8"}
          [] canon = "SQL" -> {"sql", "mysql", "postgres"}
          [] canon = "Machine Learning" -> {"machine learning", "ml"}
          [] canon = "Data Analysis" -> {"data analysis", "analytics"}]

\* the characters of the skill names, in code point order
CodePoints == " ABCDEFGHIJKLMNOPQRSTUVWXYZabcdefghijklmnopqrstuvwxyz"

\* a < b for str: the first differing character decides, a proper prefix is less
StrLess(a, b) ==
    LET n == IF Len(a) < Len(b) THEN Len(a) ELSE Len(b)
        diff == {i \in 1..n : Char(a, i) # Char(b, i)}
    IN  IF diff = {} THEN Len(a) < Len(b)
        ELSE IndexOf(Char(a, MinOf(diff)), CodePoints)
                 < IndexOf(Char(b, MinOf(diff)), CodePoints)

\* list(found) in the order SKILL_MAP lists the names
unsorted(found) ==
    SelectSeq(<<"Python", "Java", "SQL", "Machine Learning", "Data Analysis">>,
              LAMBDA canon : canon \in found)

\* sorted(found)
RECURSIVE sorted(_)
sorted(found) ==
    IF found = {} THEN <<>>
    ELSE LET least == CHOOSE a \in found : \A b \in found \ {a} : StrLess(a, b)
         IN  <<least>> \o sorted(found \ {least})

\* sep.join(seq)
RECURSIVE JoinWith(_, _)
JoinWith(seq, sep) ==
    IF seq = <<>> THEN ""
    ELSE IF Len(seq) = 1 THEN seq[1]
    ELSE seq[1] \o sep \o JoinWith(Tail(seq), sep)

\* lines 159-164
FoundSkills(text) ==
    LET low == lower(text)
    IN  {canon \in DOMAIN SKILL_MAP : \E v \in SKILL_MAP[canon] : Contains(low, v)}

normalize_skills(text) == JoinWith(sorted(FoundSkills(text)), ", ")

(***************************************************************************)
(* llm_fill_missing (lines 170-202).  The model's output is represented by *)
(* what json.loads makes of it:                                            *)
(*   kind "invalid": json.loads raises (the output is not JSON);           *)
(*   kind "dict": val maps the object's keys to values;                    *)
(*   kind "list": val is the set of the array's elements;                  *)
(*   kind "str": val is the string; kind "int", "null": a scalar.          *)
(***************************************************************************)
Parsed(kind, val) == [kind |-> kind, val |-> val]

\* line 171 with the test inverted
MissingInverted(data) == SelectSeq(FIELD_KEYS, LAMBDA k : strip(data[k].v) # "")

\* line 171; data.items() runs in the order of FIELD_KEYS
Missing(data) == SelectSeq(FIELD_KEYS, LAMBDA k : strip(data[k].v) = "")

\* k in filled: "yes", "no", or "TypeError"
InResponse(k, response) ==
    CASE response.kind = "dict" -> IF k \in DOMAIN response.val THEN "yes" ELSE "no"
      [] response.kind = "list" -> IF Str(k) \in response.val THEN "yes" ELSE "no"
      [] response.kind = "str" -> IF Contains(response.val, k) THEN "yes" ELSE "no"
      [] OTHER -> "TypeError"

\* the loop of lines 196-198 over every key of the record
FillKeysAll(data) == FIELD_KEYS

\* the keys the loop of lines 196-198 visits
FillKeys(data) == Missing(data)

\* lines 196-200: an exception leaves the loop, and what was assigned stays
RECURSIVE FillLoop(_, _, _)
FillLoop(data, response, ks) ==
    IF ks = <<>> THEN data
    ELSE LET k == Head(ks)
             has == InResponse(k, response)
         IN  IF has = "TypeError" THEN data
             ELSE IF has = "no" THEN FillLoop(data, response, Tail(ks))
             ELSE IF response.kind # "dict" THEN data   \* filled[k]: TypeError
             ELSE IF Truthy(response.val[k])
                  THEN FillLoop(Put(data, k, response.val[k]), response, Tail(ks))
             ELSE FillLoop(data, response, Tail(ks))

\* the call returning normally; line 172 is the caller's guard in LlmStep
llm_fill_missing(data, response) ==
    IF response.kind = "invalid" THEN data
    ELSE FillLoop(data, response, FillKeys(data))

(***************************************************************************)
(* confidence_score (lines 207-214), in tenths: 0.9 is 9.                  *)
(***************************************************************************)
\* lines 210-213 with the two tests in the other order
confidence_score_short_first(value) ==
    IF value = "" THEN 0
    ELSE IF WordCount(value) > 5 THEN 7
    ELSE IF WordCount(value) > 20 THEN 9
    ELSE 5

confidence_score(value) ==
    IF value = "" THEN 0
    ELSE IF WordCount(value) > 20 THEN 9
    ELSE IF WordCount(value) > 5 THEN 7
    ELSE 5

(***************************************************************************)
(* Documents and model outputs.                                            *)
(***************************************************************************)
SeqsUpTo(S, n) == UNION {[1..m -> S] : m \in 0..n}

DocsOf(lines, n) == {JoinWith(ls, "\n") : ls \in SeqsUpTo(lines, n)}

SectionLines ==
    { "Responsibilities",
      "Skills",
      "Build APIs",
      "Your role is to code",
      "Our hiring process is described on the website" }

SectionDocs == DocsOf(SectionLines, MaxSectionLines)

LongLine ==
    "We are a small team that ships every week and we want someone who likes to learn and to teach others too"

DocLines ==
    { "",
      "  ",
      "Responsibilities",
      "Skills",
      "Python and MySQL analytics",
      "Designation: Data Intern",
      "Role -",
      "Stipend: ₹15,000 for 6 months",
      "2+ years, 3 openings",
      "Based at Pune",
      LongLine }

Docs == DocsOf(DocLines, MaxDocLines)

Dict(items) == Parsed("dict", items)

Responses ==
    { Parsed("invalid", ""),
      Parsed("null", ""),
      Parsed("int", "5"),
      Parsed("str", "company_name"),
      Parsed("list", {Str("company_name"), Str("skills")}),
      Parsed("list", {}),
      Dict(<<>>),
      Dict("company_name" :> Str("Acme Corp")
           @@ "official_website" :> Str("")
           @@ "joining_month" :> Str(" ")
           @@ "designation" :> Str("Chief Editor")
           @@ "roles_responsibilities" :> Str("Rewritten by the model")
           @@ "skills" :> Str("Java, HTML and Excel")
           @@ "selection_process" :> Str(LongLine)
           @@ "joining_location" :> Str("Remote, anywhere in the world really")
           @@ "salary" :> Str("10")),
      Dict("skills" :> Str("Excel")),
      Dict("openings" :> Num("3") @@ "stipend_part_time" :> Num("0")),
      Dict("skills" :> Num("7")),
      Dict("company_name" :> Obj("{\"name\": \"Acme\"}")) }

SkillTokens ==
    { "Python", "py", "JAVA 8", "MySQL", "Machine Learning", "HTML", "Analytics",
      "Excel" }

SkillResponses ==
    {Dict("skills" :> Str(JoinWith(ts, ", "))) : ts \in SeqsUpTo(SkillTokens, MaxSkillTokens)}

(***************************************************************************)
(* The handler of the "Extract & Auto-Fill" button (lines 284-294).        *)
(***************************************************************************)
NotCalled == Parsed("not called", "")

Raised == Parsed("raise", "")

InitWith(docs) ==
    /\ raw_text \in {extract_text(d) : d \in docs}
    /\ pc = "idle"
    /\ rule_filled = <<>>
    /\ filled = NotCalled
    /\ llm_calls = 0
    /\ completed = <<>>
    /\ final = <<>>
    /\ session_state = <<>>

\* line 285
Extract ==
    /\ pc = "idle"
    /\ final' = rule_extract(raw_text)
    /\ rule_filled' = final'
    /\ pc' = "rule_filled"
    /\ UNCHANGED <<raw_text, filled, llm_calls, completed, session_state>>

\* line 286, the call returning: nothing missing (line 172), or the model
\* answered with one of responses
LlmStep(responses) ==
    /\ pc = "rule_filled"
    /\ \E response \in responses :
          IF Missing(final) = <<>>
          THEN /\ final' = final
               /\ UNCHANGED <<filled, llm_calls>>
          ELSE /\ final' = llm_fill_missing(final, response)
               /\ filled' = response
               /\ llm_calls' = llm_calls + 1
    /\ completed' = final'
    /\ pc' = "completed"
    /\ UNCHANGED <<raw_text, rule_filled, session_state>>

LlmFill == LlmStep(Responses)

\* line 286, the tokenizer or the model raising at lines 190-192, which no
\* try encloses: the exception leaves llm_fill_missing and the handler
LlmRaise ==
    /\ pc = "rule_filled"
    /\ Missing(final) # <<>>
    /\ filled' = Raised
    /\ llm_calls' = llm_calls + 1
    /\ pc' = "aborted"
    /\ UNCHANGED <<raw_text, rule_filled, completed, final, session_state>>

\* lines 288-289; .lower() of a value that is no str raises AttributeError
Normalize ==
    /\ pc = "completed"
    /\ IF ~Truthy(final["skills"])
       THEN /\ final' = final
            /\ pc' = "normalized"
       ELSE IF final["skills"].t = "str"
       THEN /\ final' = Put(final, "skills", Str(normalize_skills(final["skills"].v)))
            /\ pc' = "normalized"
       ELSE /\ final' = final
            /\ pc' = "aborted"
    /\ UNCHANGED <<raw_text, rule_filled, filled, llm_calls, completed,
                   session_state>>

\* the value confidence_score is given is a str, or a truthy value whose
\* .split() raises AttributeError
Scorable(record) == \A k \in DOMAIN record : record[k].t = "str"

\* lines 292-294 over the filled fields only
ConfidenceOfFilled(record) ==
    [k \in {x \in DOMAIN record : record[x].v # ""} |->
        confidence_score(record[k].v)]

Confidence(record) == [k \in DOMAIN record |-> confidence_score(record[k].v)]

\* lines 291-294: "data" is stored before the confidences are computed
Score ==
    /\ pc = "normalized"
    /\ IF Scorable(final)
       THEN /\ session_state' =
                   Put(Put(session_state, "data", final),
                       "confidence", Confidence(final))
            /\ pc' = "scored"
       ELSE /\ session_state' = Put(session_state, "data", final)
            /\ pc' = "aborted"
    /\ UNCHANGED <<raw_text, rule_filled, filled, llm_calls, completed, final>>

Init == InitWith(Docs)

Next == Extract \/ LlmFill \/ LlmRaise \/ Normalize \/ Score

Spec == Init /\ [][Next]_vars

\* rule_extract alone, on documents of section headers and bodies
InitSections == InitWith(SectionDocs)

NextSections == Extract

SpecSections == InitSections /\ [][NextSections]_vars

\* the pipeline on the empty document, the model proposing the skills
InitSkills == InitWith({""})

LlmFillSkills == LlmStep(SkillResponses)

NextSkills == Extract \/ LlmFillSkills \/ Normalize \/ Score

SpecSkills == InitSkills /\ [][NextSkills]_vars

(***************************************************************************)
(* Properties.                                                             *)
(***************************************************************************)
Range(seq) == {seq[i] : i \in 1..Len(seq)}

Occurrences(x, seq) == Cardinality({i \in 1..Len(seq) : seq[i] = x})

\* the response proposes a non-empty value for key k
Proposes(response, k) ==
    /\ response.kind = "dict"
    /\ k \in DOMAIN response.val
    /\ Truthy(response.val[k])

Returned == DOMAIN completed # {}

\* C1: llm_fill_missing never overwrites a filled field: a field that was
\* non-empty before the call has the same value after it, and a field changes
\* only if it was empty and the response proposes a non-empty value for it,
\* which it then holds.
C1_NeverOverwritesFilled ==
    Returned =>
        \A k \in FieldKeySet :
            /\ rule_filled[k].v # "" => completed[k] = rule_filled[k]
            /\ completed[k] # rule_filled[k] =>
                   /\ rule_filled[k].v = ""
                   /\ Proposes(filled, k)
                   /\ completed[k] = filled.val[k]

\* the response proposes another value for a filled field, which keeps its
\* value, while a missing field is filled
C1_Witness ==
    /\ Returned
    /\ \E k \in FieldKeySet :
          /\ rule_filled[k].v # ""
          /\ Proposes(filled, k)
          /\ filled.val[k] # rule_filled[k]
          /\ completed[k] = rule_filled[k]
    /\ \E k \in FieldKeySet : completed[k] # rule_filled[k]

\* C2: the record the pipeline holds at every stage and the record it stores
\* have exactly the 14 keys of the schema, and the stored confidence mapping
\* has the same key set.
C2_ExactSchemaKeys ==
    /\ Cardinality(FieldKeySet) = 14
    /\ pc # "idle" => DOMAIN final = FieldKeySet
    /\ "data" \in DOMAIN session_state =>
           DOMAIN session_state["data"] = FieldKeySet
    /\ "confidence" \in DOMAIN session_state =>
           DOMAIN session_state["confidence"] = FieldKeySet
    /\ pc = "scored" =>
           /\ DOMAIN session_state = {"data", "confidence"}
           /\ DOMAIN session_state["confidence"] = DOMAIN session_state["data"]

\* a scored run whose response carried a key outside the schema, with a
\* section found by the rules and a field filled by the response
C2_Witness ==
    /\ pc = "scored"
    /\ filled.kind = "dict"
    /\ DOMAIN filled.val \ FieldKeySet # {}
    /\ rule_filled["skills"].v # ""
    /\ \E k \in FieldKeySet : completed[k] # rule_filled[k]

\* the response is no flat mapping from key to string: not JSON, not an
\* object, or an object with a value that is no string
Malformed(response) ==
    \/ response.kind # "dict"
    \/ \E k \in DOMAIN response.val : response.val[k].t # "str"

\* C3: on a malformed response llm_fill_missing returns the record it was
\* given, field by field.
C3_MalformedLeavesRecord ==
    (Returned /\ Malformed(filled)) => completed = rule_filled

\* C4: a failure of the model call does not abort the pipeline.
C4_FailureDoesNotAbort == filled.kind = "raise" => pc # "aborted"

\* C5 as stated: on empty input every field of the final record is empty and
\* every confidence is 0.0, whatever the response, with at most one call.
C5_EmptyInputAllEmpty ==
    (raw_text = "" /\ pc = "scored") =>
        /\ llm_calls \in {0, 1}
        /\ \A k \in FieldKeySet :
              /\ session_state["data"][k] = Str("")
              /\ session_state["confidence"][k] = 0

\* C5 amended: on empty input rule_extract leaves every field empty, the
\* model is called exactly once, and in the scored record a field is non-empty
\* only if the response proposed a non-empty value for it; every field left
\* empty has confidence 0.0.
C5_EmptyInputOnlyProposals ==
    raw_text = "" =>
        /\ pc # "idle" => \A k \in FieldKeySet : rule_filled[k] = Str("")
        /\ pc \notin {"idle", "rule_filled"} => llm_calls = 1
        /\ pc = "scored" =>
               \A k \in FieldKeySet :
                   /\ session_state["data"][k].v # "" => Proposes(filled, k)
                   /\ session_state["data"][k].v = "" =>
                          session_state["confidence"][k] = 0

\* the empty document scored with a field taken from the response and a
\* field left empty
C5_Witness ==
    /\ raw_text = ""
    /\ pc = "scored"
    /\ llm_calls = 1
    /\ \E k \in FieldKeySet : session_state["data"][k].v # ""
    /\ \E k \in FieldKeySet : session_state["data"][k].v = ""

\* the lines of the document a section's header keywords match
OwnHeaders(key, lines) ==
    LET keywords == CASE key = "roles_responsibilities" -> RolesKeywords
                      [] key = "skills" -> SkillsKeywords
                      [] key = "selection_process" -> SelectionKeywords
    IN  {i \in 1..Len(lines) : SearchAny(keywords, lines[i])}

SectionFields == {"roles_responsibilities", "skills", "selection_process"}

\* C6: the body of a section starts with the line after the first line that
\* matches the section's keywords, whatever matches later.
C6_BodyStartsAfterFirstHeader ==
    pc = "rule_filled" =>
        \A key \in SectionFields :
            LET lines == splitlines(raw_text)
                heads == OwnHeaders(key, lines)
                first == MinOf(heads)
            IN  (/\ heads # {}
                 /\ first < Len(lines)
                 /\ HeaderOf(lines[first + 1]) = None)
                    => StartsAt(final[key].v, 1, strip(lines[first + 1]) \o "\n")

\* C7: after the one header of a section, every line up to the first line
\* that is shorter than 40 characters and matches a keyword of another
\* section is in the body; so is a line of 40 characters or more that
\* contains a keyword.
C7_OnlyShortForeignHeaderEnds ==
    pc = "rule_filled" =>
        \A key \in SectionFields :
            LET lines == splitlines(raw_text)
                heads == OwnHeaders(key, lines)
                start == MinOf(heads)
                ends == {j \in (start + 1)..Len(lines) :
                            /\ Len(lines[j]) < 40
                            /\ \E other \in SectionFields \ {key} :
                                   j \in OwnHeaders(other, lines)}
            IN  Cardinality(heads) = 1 =>
                    \A j \in (start + 1)..Len(lines) :
                        (\A e \in ends : j < e) =>
                            Contains(final[key].v, strip(lines[j]) \o "\n")

\* C8: the bodies of the three sections, taken together, hold each line of
\* the document at most as often as the document does, and hold no line
\* that matches a header keyword.
C8_SectionsDoNotOverlap ==
    pc = "rule_filled" =>
        LET lines == splitlines(raw_text)
            input == [i \in 1..Len(lines) |-> strip(lines[i])]
            bodies == splitlines(final["roles_responsibilities"].v)
                          \o splitlines(final["skills"].v)
                          \o splitlines(final["selection_process"].v)
        IN  \A x \in Range(bodies) :
                /\ Occurrences(x, bodies) <= Occurrences(x, input)
                /\ ~SearchAny(RolesKeywords \cup SkillsKeywords
                                  \cup SelectionKeywords, x)

\* headers out of the template's order, each with a body
C8_Witness ==
    /\ pc = "rule_filled"
    /\ final["skills"].v # ""
    /\ final["roles_responsibilities"].v # ""
    /\ LET lines == splitlines(raw_text)
       IN  \E i, j \in 1..Len(lines) :
               /\ i < j
               /\ HeaderOf(lines[i]) = "skills"
               /\ HeaderOf(lines[j]) = "roles_responsibilities"

\* C9: in the scored state every stored confidence is the score of the stored
\* value: 0.0 for an empty value, 0.9 above 20 words, 0.7 above 5 words, 0.5
\* for any other non-empty value (in tenths), hence within [0.0, 1.0].
C9_ConfidenceIsScore ==
    pc = "scored" =>
        \A k \in FieldKeySet :
            LET value == session_state["data"][k].v
                words == WordCount(value)
                conf == session_state["confidence"][k]
            IN  /\ conf \in 0..10
                /\ value = "" => conf = 0
                /\ (value # "" /\ words > 20) => conf = 9
                /\ (value # "" /\ words > 5 /\ words <= 20) => conf = 7
                /\ (value # "" /\ words <= 5) => conf = 5

\* a scored record with a value of each of the four scores
C9_Witness ==
    /\ pc = "scored"
    /\ \A c \in {0, 5, 7, 9} :
           \E k \in FieldKeySet : session_state["confidence"][k] = c

\* the items of a ", "-separated list
RECURSIVE Items(_)
Items(s) ==
    LET cuts == {i \in 1..(Len(s) - 1) : SubSeq(s, i, i + 1) = ", "}
    IN  IF cuts = {} THEN {s}
        ELSE {SubSeq(s, 1, MinOf(cuts) - 1)}
                 \cup Items(SubSeq(s, MinOf(cuts) + 2, Len(s)))

AlphabeticalSkills ==
    <<"Data Analysis", "Java", "Machine Learning", "Python", "SQL">>

\* the canonical names with a variant in some item of the list, in
\* alphabetical order: a function of the set of items, not of their order
ExpectedSkills(s) ==
    JoinWith(SelectSeq(AlphabeticalSkills,
                       LAMBDA canon : \E item \in Items(s), v \in SKILL_MAP[canon] :
                                          Contains(lower(item), v)),
             ", ")

\* C10: the normalised skills are exactly the canonical names with a variant
\* occurring in the lower-cased input, each once, joined by ", " in
\* alphabetical order, whatever the order of the input's items; the empty
\* input gives the empty string.
C10_NormalizedSkills ==
    /\ normalize_skills("") = ""
    /\ pc \in {"normalized", "scored"} =>
           final["skills"].v = ExpectedSkills(completed["skills"].v)

\* skills given out of alphabetical order, one by an alias inside a word
C10_Witness ==
    /\ pc = "normalized"
    /\ completed["skills"].v = "Python, HTML, JAVA 8"
    /\ final["skills"].v = "Java, Machine Learning, Python"

====
